---- MODULE Spec2Model ----
(***************************************************************************)
(* The reactive graph of dioxus-signals around packages/signals/src/       *)
(* selector.rs: selector(), use_selector() and                             *)
(* use_selector_with_dependencies(), run step by step on an explicit call  *)
(* stack, over a generation-checked value arena, Signals with their        *)
(* subscriber sets, Effects and the Effect Stack.                          *)
(*                                                                         *)
(* selector.rs is translated statement by statement.  The arena            *)
(* (CopyValue), Signal::read / Signal::set, Effect re-invocation, once()   *)
(* and use_signal() live in other crates of the repository; they follow    *)
(* sections 3, 4.1-4.3 and 6 of the specification.                         *)
(***************************************************************************)
EXTENDS Integers, Sequences, FiniteSets, TLC

\* ------------------------------------------------------------- bounds
\* A slot's generation is bumped at most this many times (scope teardowns).
MaxGen == 1
\* Values written to the plain signal range over 0..MaxVal.
MaxVal == 2
\* Call sites of use_selector in the component body.
NSelSites == 2

Vals == 0..MaxVal
\* Dependency values x passed to use_selector_with_dependencies((x,), ..).
DepVals == {1, 3}
SelSites == 1..NSelSites
\* The call site after them: a selector over the first and the last of them.
JoinSite == NSelSites + 1
\* Arena capacity: what one scope instantiation allocates (count, two slots
\* per selector, three for the dependency selector, two for a selector made
\* inside a closure) and one slot for a selector() call outside every scope;
\* allocation never fails.
NSlots == 1 + JoinSite + JoinSite + 3 + 2 + 1

\* ------------------------------------------------------------- scopes
NoScope == "none"

VARIABLES
    slots,      \* the Value Arena: slot index -> [gen, used, val]
    effects,    \* the Effect Stack (get_effect_stack().effects)
    frames,     \* the call stack of the running operation, innermost last
    hooks,      \* the scope's hook storage: once() / use_signal() results
    cur,        \* current_scope_id(): a scope id or NoScope
    leaked,     \* handles that outlived the scope instantiation they came from
    err,        \* "none", or the panic that ended the program
    ret,        \* the value the last finished call returned
    scheduled,  \* consumers schedule_update was called for in this operation
    readLog,    \* history: <<effect, signal handle>>, the body of that effect read that signal
    onceLog,    \* history: per call site, how often once() ran init, and the first handle it gave
    runLog      \* history: the closure re-runs of the running operation, in order

vars == <<slots, effects, frames, hooks, cur, leaked, err, ret, scheduled, readLog, onceLog, runLog>>

\* ------------------------------------------------------------- values
Empty == [type |-> "none"]
Unit == [type |-> "unit"]
NoHandle == [slot |-> 0, gen |-> 0]
IntVal(n) == [type |-> "int", n |-> n]
\* Dependency::out() of the one-element tuple (x,): the tuple itself.
TupVal(x) == [type |-> "tuple", t |-> <<x>>]
HandleVal(h) == [type |-> "handle", h |-> h]

\* SignalData (selector.rs:83-89): value and the two subscriber sets.
SignalData(v, subs, esubs) ==
    [type |-> "signal", value |-> v, subscribers |-> subs, effect_subscribers |-> esubs]

\* The boxed closure of selector.rs:94-103: it owns f and the state handle.
Closure(f, state) == [type |-> "closure", f |-> f, state |-> state]

\* Effect (selector.rs:74-78); effect_stack is the one global stack.
Effect(source, callback) == [source |-> source, callback |-> callback]

\* ------------------------------------------------------------- the arena
SlotIds == 1..NSlots
FreeSlots(sl) == {i \in SlotIds : ~sl[i].used}
LowestFree(sl) == CHOOSE i \in FreeSlots(sl) : \A j \in FreeSlots(sl) : i <= j

\* allocate(): a handle to a fresh, invalid slot (CopyValue::invalid()).
AllocSlot(sl) == [sl EXCEPT ![LowestFree(sl)].used = TRUE]
AllocHandle(sl) == [slot |-> LowestFree(sl), gen |-> sl[LowestFree(sl)].gen]

\* A handle is current when its generation is the slot's.
Current(sl, h) == h.slot \in SlotIds /\ sl[h.slot].gen = h.gen
\* read(h)/write(h) succeed only on a current handle whose slot holds a value.
Valid(sl, h) == Current(sl, h) /\ sl[h.slot].val.type # "none"

\* value.set(..) on a box: stores the payload (the handle is current).
BoxSet(sl, h, payload) == [sl EXCEPT ![h.slot].val = payload]

\* Variant of invalidate(h): the generation is kept.
InvalidateKeepGen(sl, i) == [sl EXCEPT ![i] = [gen |-> @.gen, used |-> FALSE, val |-> Empty]]

\* invalidate(h): bump the generation, clear the value, free the slot.
Invalidate(sl, i) == [sl EXCEPT ![i] = [gen |-> @.gen + 1, used |-> FALSE, val |-> Empty]]

IsSignal(sl, h) == Valid(sl, h) /\ sl[h.slot].val.type = "signal"

\* ------------------------------------------------------------- Signal::read
\* Signal::read on a valid handle: the top Effect of the Effect Stack is
\* registered in effect_subscribers (a set: adding twice is a no-op); with an
\* empty stack the current scope, if any, becomes a plain subscriber.
Subscribe(sl, stk, scope, h) ==
    IF Len(stk) > 0
    THEN [sl EXCEPT ![h.slot].val.effect_subscribers = @ \cup {stk[Len(stk)]}]
    ELSE IF scope # NoScope
         THEN [sl EXCEPT ![h.slot].val.subscribers = @ \cup {scope}]
         ELSE sl

\* History: the body of effect e performed a Signal::read of each of hs.
BodyRead(e, hs) == {<<e, h>> : h \in hs}

\* ------------------------------------------------------------- compute closures
\* The closures f handed to selector().  The pure ones read their captured
\* signals in order and combine the values:
\*   double  || a() * 2            half  || a() / 2
\*   sum     || a() + b()          dep   || f(dependencies_signal.read().clone())
\*   const   || 0
\*   cond    || if a() == 0 { b() } else { 1 }
\* and two that do more than read:
\*   bump    || { let v = a(); a.set(v + 1); v * 2 }
\*   nest    || { selector(move || a() * 2); 0 }
RECURSIVE ReadAll(_, _, _, _)
ReadAll(sl, stk, scope, args) ==
    IF args = <<>> THEN sl
    ELSE ReadAll(Subscribe(sl, stk, scope, Head(args)), stk, scope, Tail(args))

Range(s) == {s[i] : i \in DOMAIN s}
AllValid(sl, args) == \A h \in Range(args) : IsSignal(sl, h)
ValueOf(sl, h) == sl[h.slot].val.value
\* What the reads of f returned, in order.
Seen(sl, args) == [i \in DOMAIN args |-> ValueOf(sl, args[i])]

\* The Signals the body of f itself reads, in order.
Reads(sl, f) ==
    CASE f.kind = "nest" -> <<>>
      [] f.kind = "cond" -> IF IsSignal(sl, f.args[1]) /\ ValueOf(sl, f.args[1]).n # 0
                            THEN <<f.args[1]>>
                            ELSE f.args
      [] OTHER -> f.args

Eval(sl, f) ==
    CASE f.kind = "double" -> IntVal(ValueOf(sl, f.args[1]).n * 2)
      [] f.kind = "half"   -> IntVal(ValueOf(sl, f.args[1]).n \div 2)
      [] f.kind = "sum"    -> IntVal(ValueOf(sl, f.args[1]).n + ValueOf(sl, f.args[2]).n)
      [] f.kind = "dep"    -> IntVal(ValueOf(sl, f.args[1]).t[1] * 2)
      [] f.kind = "const"  -> IntVal(0)
      [] f.kind = "cond"   -> IF ValueOf(sl, f.args[1]).n = 0
                              THEN ValueOf(sl, f.args[2])
                              ELSE IntVal(1)
      [] f.kind = "bump"   -> IntVal(ValueOf(sl, f.args[1]).n * 2)
      [] f.kind = "nest"   -> IntVal(0)


\* ------------------------------------------------------------- call stack
Idle == frames = <<>> /\ err = "none"
Running == frames # <<>> /\ err = "none"
Top == frames[Len(frames)]
At(proc, pc) == Running /\ Top.proc = proc /\ Top.pc = pc
Depth == Len(frames)
Front(s) == SubSeq(s, 1, Len(s) - 1)
Pop(stk) == Front(stk)

\* Frames of the procedures; every procedure ends at pc "ret".
SelectorFrame(f, stk, sl) ==
    [proc |-> "selector", pc |-> "alloc", f |-> f, state |-> NoHandle,
     effect |-> Effect(NoScope, NoHandle), value |-> Unit, stk0 |-> stk, sl0 |-> sl]
CallbackFrame(cl) ==
    [proc |-> "callback", pc |-> "compute", f |-> cl.f, state |-> cl.state,
     value |-> Unit, seen |-> <<>>, old |-> Unit, changed |-> FALSE]
EffectFrame(e, by) ==
    [proc |-> "effect", pc |-> "push", effect |-> e, by |-> by, ran |-> FALSE]
WriteFrame(h, v, stk) ==
    [proc |-> "write", pc |-> "replace", sig |-> h, value |-> v, old |-> Unit,
     todoE |-> {}, todoS |-> {}, esubs0 |-> {}, subs0 |-> {},
     ran |-> {}, order |-> <<>>, sched |-> {}, stk0 |-> stk]
UseSelectorFrame(site, f) ==
    [proc |-> "use_selector", pc |-> "once", site |-> site, f |-> f, fresh |-> FALSE]
UseSelectorWithDependenciesFrame(x) ==
    [proc |-> "use_selector_with_dependencies", pc |-> "signal", x |-> x,
     dsig |-> NoHandle, sel |-> NoHandle, fresh |-> FALSE,
     prev |-> Unit, changed |-> FALSE, wrote |-> FALSE, val0 |-> Unit]

\* What the body of f calls after its reads: Signal::set for bump, selector()
\* for nest, nothing for a pure closure.
BodyCalls(sl, stk, f) ==
    CASE f.kind = "bump" ->
            <<WriteFrame(f.args[1], IntVal(ValueOf(sl, f.args[1]).n + 1), stk)>>
      [] f.kind = "nest" ->
            <<SelectorFrame([kind |-> "double", args |-> f.args], stk, sl)>>
      [] OTHER -> <<>>

Panic(kind) ==
    /\ err' = kind
    /\ UNCHANGED <<slots, effects, frames, hooks, cur, leaked, ret, scheduled, readLog, onceLog, runLog>>

\* ------------------------------------------------------------- selector()
\* selector.rs:71-73  let state = Signal { inner: CopyValue::invalid() }
selector_alloc ==
    /\ At("selector", "alloc")
    /\ slots' = AllocSlot(slots)
    /\ frames' = [frames EXCEPT ![Depth].pc = "effect",
                                ![Depth].state = AllocHandle(slots)]
    /\ UNCHANGED <<effects, hooks, cur, leaked, err, ret, scheduled, readLog, onceLog, runLog>>

\* Variant of selector.rs:74-78: the scope is not checked here.
selector_effect_unchecked ==
    /\ At("selector", "effect")
    /\ slots' = AllocSlot(slots)
    /\ frames' = [frames EXCEPT ![Depth].pc = "push",
                                ![Depth].effect = Effect(cur, AllocHandle(slots))]
    /\ UNCHANGED <<effects, hooks, cur, leaked, err, ret, scheduled, readLog, onceLog, runLog>>

\* Variant of selector.rs:74-78: the callback is boxed when the Effect is
\* made, before the first run of f.
selector_effect_installed ==
    /\ At("selector", "effect")
    /\ IF cur = NoScope
       THEN Panic("NotInReactiveContext")
       ELSE /\ slots' = BoxSet(AllocSlot(slots), AllocHandle(slots),
                               Closure(Top.f, Top.state))
            /\ frames' = [frames EXCEPT ![Depth].pc = "push",
                                        ![Depth].effect = Effect(cur, AllocHandle(slots))]
            /\ UNCHANGED <<effects, hooks, cur, leaked, err, ret, scheduled, readLog, onceLog, runLog>>

\* selector.rs:74-78  current_scope_id().expect("in a virtual dom"), then the
\* Effect with an invalid callback slot.
selector_effect ==
    /\ At("selector", "effect")
    /\ IF cur = NoScope
       THEN Panic("NotInReactiveContext")
       ELSE /\ slots' = AllocSlot(slots)
            /\ frames' = [frames EXCEPT ![Depth].pc = "push",
                                        ![Depth].effect = Effect(cur, AllocHandle(slots))]
            /\ UNCHANGED <<effects, hooks, cur, leaked, err, ret, scheduled, readLog, onceLog, runLog>>

\* Variant of selector.rs:80-82: the Effect is not pushed before the first run.
selector_push_skipped ==
    /\ At("selector", "push")
    /\ frames' = [frames EXCEPT ![Depth].pc = "compute"]
    /\ UNCHANGED <<slots, effects, hooks, cur, leaked, err, ret, scheduled, readLog, onceLog, runLog>>

\* Variant of selector.rs:80-82: the Effect goes to the bottom of the stack.
selector_push_bottom ==
    /\ At("selector", "push")
    /\ effects' = <<Top.effect>> \o effects
    /\ frames' = [frames EXCEPT ![Depth].pc = "compute"]
    /\ UNCHANGED <<slots, hooks, cur, leaked, err, ret, scheduled, readLog, onceLog, runLog>>

\* selector.rs:80-82  get_effect_stack().effects.write().push(effect)
selector_push ==
    /\ At("selector", "push")
    /\ effects' = Append(effects, Top.effect)
    /\ frames' = [frames EXCEPT ![Depth].pc = "compute"]
    /\ UNCHANGED <<slots, hooks, cur, leaked, err, ret, scheduled, readLog, onceLog, runLog>>

\* selector.rs:86  value: f()  -- the first run of the computation, with the
\* Effect on the stack; each read is a Signal::read.
selector_compute ==
    /\ At("selector", "compute")
    /\ IF ~AllValid(slots, Reads(slots, Top.f))
       THEN Panic("UseAfterInvalidate")
       ELSE /\ slots' = ReadAll(slots, effects, cur, Reads(slots, Top.f))
            /\ readLog' = readLog \cup BodyRead(Top.effect, Range(Reads(slots, Top.f)))
            /\ frames' = [frames EXCEPT ![Depth].pc = "init",
                                        ![Depth].value = Eval(slots, Top.f)]
                          \o BodyCalls(slots', effects, Top.f)
            /\ UNCHANGED <<effects, hooks, cur, leaked, err, ret, scheduled, onceLog, runLog>>

\* Variants of selector.rs:84-86: the Effect starts subscribed to its own
\* Signal; the creating scope starts as a plain subscriber.
InitialDataSelf(value, effect) == SignalData(value, {}, {effect})
InitialDataScope(value, effect) == SignalData(value, {effect.source}, {})

\* selector.rs:84-86  the first SignalData: both subscriber sets empty.
InitialData(value, effect) == SignalData(value, {}, {})

\* selector.rs:83-89  state.inner.value.set(SignalData { .. }); update_any:
\* schedule_update_any() needs the current scope as well.
selector_init ==
    /\ At("selector", "init")
    /\ IF cur = NoScope
       THEN Panic("NotInReactiveContext")
       ELSE /\ slots' = BoxSet(slots, Top.state, InitialData(Top.value, Top.effect))
            /\ frames' = [frames EXCEPT ![Depth].pc = "pop"]
            /\ UNCHANGED <<effects, hooks, cur, leaked, err, ret, scheduled, readLog, onceLog, runLog>>

\* Variant of selector.rs:90-92: the Effect frame is left on the stack.
selector_pop_skipped ==
    /\ At("selector", "pop")
    /\ frames' = [frames EXCEPT ![Depth].pc = "install"]
    /\ UNCHANGED <<slots, effects, hooks, cur, leaked, err, ret, scheduled, readLog, onceLog, runLog>>

\* selector.rs:90-92  get_effect_stack().effects.write().pop()
selector_pop ==
    /\ At("selector", "pop")
    /\ effects' = Pop(effects)
    /\ frames' = [frames EXCEPT ![Depth].pc = "install"]
    /\ UNCHANGED <<slots, hooks, cur, leaked, err, ret, scheduled, readLog, onceLog, runLog>>

\* selector.rs:94-105  effect.callback.value.set(Box::new(move || ..)) and
\* ReadOnlySignal::new(state)
selector_install ==
    /\ At("selector", "install")
    /\ slots' = BoxSet(slots, Top.effect.callback, Closure(Top.f, Top.state))
    /\ frames' = [frames EXCEPT ![Depth].pc = "ret"]
    /\ ret' = HandleVal(Top.state)
    /\ UNCHANGED <<effects, hooks, cur, leaked, err, scheduled, readLog, onceLog, runLog>>

\* Variant of selector.rs:105: the caller gets the Signal itself.
ReturnsWritable == FALSE

\* selector.rs:105  ReadOnlySignal::new(state): what selector() hands out
\* offers read only.
ReturnsReadOnly == TRUE

\* ------------------------------------------------------------- the closure
\* selector.rs:95  let value = f();
callback_compute ==
    /\ At("callback", "compute")
    /\ IF ~AllValid(slots, Reads(slots, Top.f))
       THEN Panic("UseAfterInvalidate")
       ELSE /\ slots' = ReadAll(slots, effects, cur, Reads(slots, Top.f))
            /\ readLog' = readLog \cup BodyRead(frames[Depth - 1].effect,
                                                 Range(Reads(slots, Top.f)))
            /\ frames' = [frames EXCEPT ![Depth].pc = "compare",
                                        ![Depth].seen = Seen(slots, Reads(slots, Top.f)),
                                        ![Depth].value = Eval(slots, Top.f)]
                          \o BodyCalls(slots', effects, Top.f)
            /\ UNCHANGED <<effects, hooks, cur, leaked, err, ret, scheduled, onceLog, runLog>>

\* Variants of the comparison at selector.rs:98.
ChangedOnlyUp(value, old) == value.n > old.n
ChangedAlways(value, old) == TRUE

\* selector.rs:98  value != old.value
Changed(value, old) == value # old

\* Variant of selector.rs:96: the old value is read with Signal::read, which
\* subscribes the Effect on top of the stack.
callback_compare_tracked ==
    /\ At("callback", "compare")
    /\ IF ~Valid(slots, Top.state)
       THEN Panic("UseAfterInvalidate")
       ELSE /\ frames' = [frames EXCEPT
                  ![Depth].old = ValueOf(slots, Top.state),
                  ![Depth].changed = Changed(Top.value, ValueOf(slots, Top.state)),
                  ![Depth].pc = IF Changed(Top.value, ValueOf(slots, Top.state))
                                THEN "set" ELSE "ret"]
            /\ ret' = Unit
            /\ slots' = Subscribe(slots, effects, cur, Top.state)
            /\ runLog' = Append(runLog, [effect |-> frames[Depth - 1].effect,
                                          seen |-> Top.seen,
                                          value |-> Top.value,
                                          old |-> ValueOf(slots, Top.state)])
            /\ UNCHANGED <<effects, hooks, cur, leaked, err, scheduled, readLog, onceLog>>

\* selector.rs:96-100  old = state.inner.read() (the box, not Signal::read:
\* nothing is subscribed); changed = value != old.value
callback_compare ==
    /\ At("callback", "compare")
    /\ IF ~Valid(slots, Top.state)
       THEN Panic("UseAfterInvalidate")
       ELSE /\ frames' = [frames EXCEPT
                  ![Depth].old = ValueOf(slots, Top.state),
                  ![Depth].changed = Changed(Top.value, ValueOf(slots, Top.state)),
                  ![Depth].pc = IF Changed(Top.value, ValueOf(slots, Top.state))
                                THEN "set" ELSE "ret"]
            /\ ret' = Unit
            /\ runLog' = Append(runLog, [effect |-> frames[Depth - 1].effect,
                                          seen |-> Top.seen,
                                          value |-> Top.value,
                                          old |-> ValueOf(slots, Top.state)])
            /\ UNCHANGED <<slots, effects, hooks, cur, leaked, err, scheduled, readLog, onceLog>>

\* Variant of selector.rs:101: the value is stored in the box directly,
\* without Signal::set.
callback_set_silent ==
    /\ At("callback", "set")
    /\ slots' = [slots EXCEPT ![Top.state.slot].val.value = Top.value]
    /\ frames' = [frames EXCEPT ![Depth].pc = "ret"]
    /\ UNCHANGED <<effects, hooks, cur, leaked, err, ret, scheduled, readLog, onceLog, runLog>>

\* selector.rs:100-102  if changed { state.set(value) }
callback_set ==
    /\ At("callback", "set")
    /\ frames' = Append([frames EXCEPT ![Depth].pc = "ret"],
                        WriteFrame(Top.state, Top.value, effects))
    /\ UNCHANGED <<slots, effects, hooks, cur, leaked, err, ret, scheduled, readLog, onceLog, runLog>>


\* ------------------------------------------------------------- Signal::set
\* Variant of write(new_value): the effect_subscribers are taken out of the
\* Signal for the walk, and each Effect subscribes again when it re-runs.
write_replace_take ==
    /\ At("write", "replace")
    /\ IF ~IsSignal(slots, Top.sig)
       THEN Panic("UseAfterInvalidate")
       ELSE /\ slots' = [slots EXCEPT ![Top.sig.slot].val.value = Top.value,
                                      ![Top.sig.slot].val.effect_subscribers = {}]
            /\ frames' = [frames EXCEPT
                  ![Depth].pc = "propagate",
                  ![Depth].old = ValueOf(slots, Top.sig),
                  ![Depth].todoE = slots[Top.sig.slot].val.effect_subscribers,
                  ![Depth].esubs0 = slots[Top.sig.slot].val.effect_subscribers,
                  ![Depth].todoS = slots[Top.sig.slot].val.subscribers,
                  ![Depth].subs0 = slots[Top.sig.slot].val.subscribers]
            /\ UNCHANGED <<effects, hooks, cur, leaked, err, ret, scheduled, readLog, onceLog, runLog>>

\* write(new_value): fails on a stale handle; otherwise replaces the value
\* unconditionally and snapshots both subscriber sets for propagation.
write_replace ==
    /\ At("write", "replace")
    /\ IF ~IsSignal(slots, Top.sig)
       THEN Panic("UseAfterInvalidate")
       ELSE /\ slots' = [slots EXCEPT ![Top.sig.slot].val.value = Top.value]
            /\ frames' = [frames EXCEPT
                  ![Depth].pc = "propagate",
                  ![Depth].old = ValueOf(slots, Top.sig),
                  ![Depth].todoE = slots[Top.sig.slot].val.effect_subscribers,
                  ![Depth].esubs0 = slots[Top.sig.slot].val.effect_subscribers,
                  ![Depth].todoS = slots[Top.sig.slot].val.subscribers,
                  ![Depth].subs0 = slots[Top.sig.slot].val.subscribers]
            /\ UNCHANGED <<effects, hooks, cur, leaked, err, ret, scheduled, readLog, onceLog, runLog>>

\* Variant of the walk over effect_subscribers: a subscriber stays to be run.
RemainingKept(todo, e) == todo

\* The walk over effect_subscribers: a subscriber that was run is done with.
Remaining(todo, e) == todo \ {e}

\* The walk is over the effect_subscribers taken when the value was replaced.
Pending(fr) == fr.todoE

\* Propagation, effect subscribers: each one's stored closure is re-invoked
\* synchronously, in no particular order.
write_run_effect ==
    /\ At("write", "propagate")
    /\ \E e \in Pending(Top) :
          frames' = Append([frames EXCEPT ![Depth].todoE = Remaining(@, e)],
                           EffectFrame(e, Top.sig))
    /\ UNCHANGED <<slots, effects, hooks, cur, leaked, err, ret, scheduled, readLog, onceLog, runLog>>

\* Variant of the plain-subscriber step: the consumer is rendered on the spot.
write_schedule_sync ==
    /\ At("write", "propagate")
    /\ Top.todoE = {}
    /\ \E c \in Top.todoS :
          /\ frames' = Append([frames EXCEPT ![Depth].todoS = @ \ {c},
                                             ![Depth].sched = @ \cup {c}],
                              [proc |-> "App", pc |-> "use_signal", site |-> 1])
          /\ scheduled' = scheduled \cup {c}
    /\ UNCHANGED <<slots, effects, hooks, cur, leaked, err, ret, readLog, onceLog, runLog>>

\* Propagation, plain subscribers: schedule_update(consumer_id), nothing is
\* run here.
write_schedule ==
    /\ At("write", "propagate")
    /\ Top.todoE = {}
    /\ \E c \in Top.todoS :
          /\ frames' = [frames EXCEPT ![Depth].todoS = @ \ {c},
                                      ![Depth].sched = @ \cup {c}]
          /\ scheduled' = scheduled \cup {c}
    /\ UNCHANGED <<slots, effects, hooks, cur, leaked, err, ret, readLog, onceLog, runLog>>

write_finish ==
    /\ At("write", "propagate")
    /\ Top.todoE = {}
    /\ Top.todoS = {}
    /\ frames' = [frames EXCEPT ![Depth].pc = "ret"]
    /\ ret' = Unit
    /\ UNCHANGED <<slots, effects, hooks, cur, leaked, err, scheduled, readLog, onceLog, runLog>>

\* ------------------------------------------------------------- Effect re-run
\* Re-invocation of an Effect: push its frame, run the stored closure, pop.
\* The closure is read through the Effect's callback handle, which fails
\* with UseAfterInvalidate on a stale or empty slot.
effect_push ==
    /\ At("effect", "push")
    /\ IF ~Valid(slots, Top.effect.callback)
       THEN Panic("UseAfterInvalidate")
       ELSE /\ effects' = Append(effects, Top.effect)
            /\ frames' = Append([frames EXCEPT
                                   ![Depth].pc = "pop",
                                   ![Depth].ran = TRUE,
                                   ![Depth - 1].ran = @ \cup {Top.effect},
                                   ![Depth - 1].order = Append(@, Top.effect)],
                                CallbackFrame(slots[Top.effect.callback.slot].val))
            /\ UNCHANGED <<slots, hooks, cur, leaked, err, ret, scheduled, readLog, onceLog, runLog>>

effect_pop ==
    /\ At("effect", "pop")
    /\ effects' = Pop(effects)
    /\ frames' = [frames EXCEPT ![Depth].pc = "ret"]
    /\ ret' = Unit
    /\ UNCHANGED <<slots, hooks, cur, leaked, err, scheduled, readLog, onceLog, runLog>>

\* ------------------------------------------------------------- hooks
HookKeys ==
    {<<"sel", i>> : i \in 1..JoinSite} \cup {<<"signal">>, <<"deps">>, <<"depsel">>}
NoHooks == [k \in HookKeys |-> NoHandle]
\* The call sites of once().
OnceKeys == {<<"sel", i>> : i \in 1..JoinSite} \cup {<<"depsel">>}
NoOnce == [k \in OnceKeys |-> [inits |-> 0, first |-> NoHandle]]

\* once(init) / use_signal(init): run_once -- init runs only while the call
\* site's hook is still empty.
HookSet(k) == hooks[k] # NoHandle

\* Variant of selector.rs:25-27: selector(f) on every call, without once().
use_selector_always ==
    /\ At("use_selector", "once")
    /\ frames' = Append([frames EXCEPT ![Depth].pc = "store", ![Depth].fresh = TRUE],
                        SelectorFrame(Top.f, effects, slots))
    /\ onceLog' = [onceLog EXCEPT ![<<"sel", Top.site>>].inits = @ + 1]
    /\ UNCHANGED <<slots, effects, hooks, cur, leaked, err, ret, scheduled, readLog, runLog>>

\* selector.rs:25-27  once(|| selector(f))
use_selector_once ==
    /\ At("use_selector", "once")
    /\ IF HookSet(<<"sel", Top.site>>)
       THEN /\ frames' = [frames EXCEPT ![Depth].pc = "ret"]
            /\ ret' = HandleVal(hooks[<<"sel", Top.site>>])
            /\ UNCHANGED onceLog
       ELSE /\ frames' = Append([frames EXCEPT ![Depth].pc = "store",
                                               ![Depth].fresh = TRUE],
                                SelectorFrame(Top.f, effects, slots))
            /\ onceLog' = [onceLog EXCEPT ![<<"sel", Top.site>>].inits = @ + 1]
            /\ UNCHANGED ret
    /\ UNCHANGED <<slots, effects, hooks, cur, leaked, err, scheduled, readLog, runLog>>

\* once() keeps what init returned for the later renders.
use_selector_store ==
    /\ At("use_selector", "store")
    /\ hooks' = [hooks EXCEPT ![<<"sel", Top.site>>] = ret.h]
    /\ onceLog' = [onceLog EXCEPT ![<<"sel", Top.site>>].first =
                        IF @ = NoHandle THEN ret.h ELSE @]
    /\ frames' = [frames EXCEPT ![Depth].pc = "ret"]
    /\ UNCHANGED <<slots, effects, cur, leaked, err, ret, scheduled, readLog, runLog>>

\* ------------------------------------------------------------- with dependencies
\* Dependency for (x,): out() is the tuple, changed() compares entry by entry.
DepOut(x) == TupVal(x)
DepChanged(x, stored) == x # stored.t[1]

\* selector.rs:53  let dependencies_signal = use_signal(|| dependencies.out());
uswd_signal ==
    /\ At("use_selector_with_dependencies", "signal")
    /\ IF HookSet(<<"deps">>)
       THEN /\ frames' = [frames EXCEPT ![Depth].pc = "once",
                                        ![Depth].dsig = hooks[<<"deps">>]]
            /\ UNCHANGED <<slots, hooks, runLog>>
       ELSE /\ slots' = BoxSet(AllocSlot(slots), AllocHandle(slots),
                               SignalData(DepOut(Top.x), {}, {}))
            /\ hooks' = [hooks EXCEPT ![<<"deps">>] = AllocHandle(slots)]
            /\ frames' = [frames EXCEPT ![Depth].pc = "once",
                                        ![Depth].dsig = AllocHandle(slots)]
    /\ UNCHANGED <<effects, cur, leaked, err, ret, scheduled, readLog, onceLog, runLog>>

\* selector.rs:54-59  once(|| selector(move || f(dependencies_signal.read().clone())))
uswd_once ==
    /\ At("use_selector_with_dependencies", "once")
    /\ IF HookSet(<<"depsel">>)
       THEN /\ frames' = [frames EXCEPT ![Depth].pc = "changed",
                                        ![Depth].sel = hooks[<<"depsel">>],
                                        ![Depth].val0 = ValueOf(slots, hooks[<<"depsel">>])]
            /\ UNCHANGED onceLog
       ELSE /\ frames' = Append([frames EXCEPT ![Depth].pc = "store", ![Depth].fresh = TRUE],
                                SelectorFrame([kind |-> "dep", args |-> <<Top.dsig>>],
                                              effects, slots))
            /\ onceLog' = [onceLog EXCEPT ![<<"depsel">>].inits = @ + 1]
    /\ UNCHANGED <<slots, effects, hooks, cur, leaked, err, ret, scheduled, readLog, runLog>>

uswd_store ==
    /\ At("use_selector_with_dependencies", "store")
    /\ hooks' = [hooks EXCEPT ![<<"depsel">>] = ret.h]
    /\ onceLog' = [onceLog EXCEPT ![<<"depsel">>].first =
                        IF @ = NoHandle THEN ret.h ELSE @]
    /\ frames' = [frames EXCEPT ![Depth].pc = "changed", ![Depth].sel = ret.h,
                                ![Depth].val0 = ValueOf(slots, ret.h)]
    /\ UNCHANGED <<slots, effects, cur, leaked, err, ret, scheduled, readLog, runLog>>

\* Variant of selector.rs:61: the snapshot is overwritten on every call.
AfterChangedAlwaysSet(changed) == "set"

\* selector.rs:61  if changed { .. }
AfterChanged(changed) == IF changed THEN "set" ELSE "ret"

\* selector.rs:60-61  changed = dependencies.changed(&*dependencies_signal.read())
uswd_changed ==
    /\ At("use_selector_with_dependencies", "changed")
    /\ slots' = Subscribe(slots, effects, cur, Top.dsig)
    /\ UNCHANGED readLog
    /\ frames' = [frames EXCEPT
          ![Depth].prev = ValueOf(slots, Top.dsig),
          ![Depth].changed = DepChanged(Top.x, ValueOf(slots, Top.dsig)),
          ![Depth].pc = AfterChanged(DepChanged(Top.x, ValueOf(slots, Top.dsig)))]
    /\ ret' = HandleVal(Top.sel)
    /\ UNCHANGED <<effects, hooks, cur, leaked, err, scheduled, onceLog, runLog>>

\* Variant of selector.rs:62: the value that was read back is set again.
uswd_set_prev ==
    /\ At("use_selector_with_dependencies", "set")
    /\ frames' = Append([frames EXCEPT ![Depth].pc = "done", ![Depth].wrote = TRUE],
                        WriteFrame(Top.dsig, Top.prev, effects))
    /\ UNCHANGED <<slots, effects, hooks, cur, leaked, err, ret, scheduled, readLog, onceLog, runLog>>

\* selector.rs:62  dependencies_signal.set(dependencies.out())
uswd_set ==
    /\ At("use_selector_with_dependencies", "set")
    /\ frames' = Append([frames EXCEPT ![Depth].pc = "done", ![Depth].wrote = TRUE],
                        WriteFrame(Top.dsig, DepOut(Top.x), effects))
    /\ UNCHANGED <<slots, effects, hooks, cur, leaked, err, ret, scheduled, readLog, onceLog, runLog>>

\* selector.rs:64  selector
uswd_done ==
    /\ At("use_selector_with_dependencies", "done")
    /\ frames' = [frames EXCEPT ![Depth].pc = "ret"]
    /\ ret' = HandleVal(Top.sel)
    /\ UNCHANGED <<slots, effects, hooks, cur, leaked, err, scheduled, readLog, onceLog, runLog>>


\* ------------------------------------------------------------- use_signal, read
\* use_signal(|| v): run_once creation of a plain Signal owned by the scope.
use_signal_init ==
    /\ At("use_signal", "init")
    /\ IF HookSet(<<"signal">>)
       THEN /\ ret' = HandleVal(hooks[<<"signal">>])
            /\ UNCHANGED <<slots, hooks, runLog>>
       ELSE /\ slots' = BoxSet(AllocSlot(slots), AllocHandle(slots),
                               SignalData(IntVal(Top.value), {}, {}))
            /\ hooks' = [hooks EXCEPT ![<<"signal">>] = AllocHandle(slots)]
            /\ ret' = HandleVal(AllocHandle(slots))
    /\ frames' = [frames EXCEPT ![Depth].pc = "ret"]
    /\ UNCHANGED <<effects, cur, leaked, err, scheduled, readLog, onceLog, runLog>>

\* Signal::read through a handle: UseAfterInvalidate on a stale handle.
ReadFrame(h) == [proc |-> "read", pc |-> "read", sig |-> h, got |-> Unit]

signal_read ==
    /\ At("read", "read")
    /\ IF ~IsSignal(slots, Top.sig)
       THEN Panic("UseAfterInvalidate")
       ELSE /\ slots' = Subscribe(slots, effects, cur, Top.sig)
            /\ UNCHANGED readLog
            /\ ret' = ValueOf(slots, Top.sig)
            /\ frames' = [frames EXCEPT ![Depth].pc = "ret",
                                        ![Depth].got = ValueOf(slots, Top.sig)]
            /\ UNCHANGED <<effects, hooks, cur, leaked, err, scheduled, onceLog, runLog>>

\* A call returns to its caller.  When the operation itself returns, the
\* host takes the schedule_update requests it collected.
Return ==
    /\ Running
    /\ Top.pc = "ret"
    /\ frames' = Front(frames)
    /\ ret' = IF Depth = 1 THEN Unit ELSE ret
    /\ scheduled' = IF Depth = 1 THEN {} ELSE scheduled
    /\ runLog' = IF Depth = 1 THEN <<>> ELSE runLog
    /\ UNCHANGED <<slots, effects, hooks, cur, leaked, err, readLog, onceLog>>

\* ------------------------------------------------------------- the component
\* The component of the doc comments (selector.rs:15-22, 37-43):
\*     let count = use_signal(|| 0);
\*     let sel_i = use_selector(f_i);                    (one per call site)
\*     let join  = use_selector(move || sel_1 + sel_n);
\*     let dsel  = use_selector_with_dependencies((x,), |(x,)| x * 2);
\*     render! { "{sel_i}" }                             (the first or the last)
\* f_i reads count and the selectors of the call sites before it.
Handles ==
    {[h |-> hooks[k], ro |-> (k # <<"signal">> /\ ReturnsReadOnly)] :
        k \in {j \in HookKeys : HookSet(j) /\ j # <<"deps">>}}
\* What the component can write through: count, and nothing else as long as
\* selectors are handed out read-only.
Writable == {e.h : e \in {x \in Handles : ~x.ro}}
Before(i) == {hooks[<<"signal">>]} \cup {hooks[<<"sel", j>>] : j \in 1..(i - 1)}
ComputesAt(i) ==
    {[kind |-> k, args |-> <<h>>] : k \in {"double", "half"}, h \in Before(i)}
    \cup {[kind |-> k, args |-> <<hooks[<<"signal">>], hooks[<<"sel", j>>]>>] :
             k \in {"sum", "cond"}, j \in 1..(i - 1)}
    \cup {[kind |-> "bump", args |-> <<hooks[<<"signal">>]>>]}
    \cup (IF i = 1 THEN {[kind |-> "nest", args |-> <<hooks[<<"signal">>]>>]} ELSE {})
\* The closure of the join: the first selector plus the last one.
JoinCompute ==
    [kind |-> "sum", args |-> <<hooks[<<"sel", 1>>], hooks[<<"sel", NSelSites>>]>>]
\* A closure that reads nothing.
NoReads == [kind |-> "const", args |-> <<>>]

Begin(frame) ==
    /\ frames' = <<frame>>
    /\ UNCHANGED <<slots, effects, hooks, cur, leaked, err, ret, scheduled, readLog, onceLog, runLog>>

Call(pc, frame) ==
    /\ frames' = Append([frames EXCEPT ![Depth].pc = pc], frame)
    /\ UNCHANGED <<slots, effects, hooks, cur, leaked, err, ret, scheduled, readLog, onceLog, runLog>>

\* A render of the component.
OpRender ==
    /\ Idle /\ cur # NoScope
    /\ Begin([proc |-> "App", pc |-> "use_signal", site |-> 1])

App_use_signal ==
    /\ At("App", "use_signal")
    /\ Call("use_selector", [proc |-> "use_signal", pc |-> "init", value |-> 0])

App_use_selector ==
    /\ At("App", "use_selector")
    /\ Top.site <= NSelSites
    /\ \E f \in ComputesAt(Top.site) :
          /\ frames' = Append([frames EXCEPT ![Depth].site = @ + 1],
                              UseSelectorFrame(Top.site, f))
          /\ UNCHANGED <<slots, effects, hooks, cur, leaked, err, ret, scheduled, readLog, onceLog, runLog>>

App_use_selector_join ==
    /\ At("App", "use_selector")
    /\ Top.site = JoinSite
    /\ frames' = Append([frames EXCEPT ![Depth].site = @ + 1],
                        UseSelectorFrame(Top.site, JoinCompute))
    /\ UNCHANGED <<slots, effects, hooks, cur, leaked, err, ret, scheduled, readLog, onceLog, runLog>>

App_use_selector_with_dependencies ==
    /\ At("App", "use_selector")
    /\ Top.site > JoinSite
    /\ \E x \in DepVals : Call("markup", UseSelectorWithDependenciesFrame(x))

App_markup ==
    /\ At("App", "markup")
    /\ \E site \in {1, NSelSites} : Call("ret", ReadFrame(hooks[<<"sel", site>>]))

\* An event handler: count.set(v).
OpWrite ==
    /\ Idle /\ cur # NoScope
    /\ \E h \in Writable, v \in Vals : Begin(WriteFrame(h, IntVal(v), effects))

\* Something that outlived the scope uses a handle it kept.
OpLeakedRead ==
    /\ Idle /\ cur # NoScope
    /\ \E e \in leaked : Begin(ReadFrame(e.h))

OpLeakedWrite ==
    /\ Idle /\ cur # NoScope
    /\ \E e \in {x \in leaked : ~x.ro}, v \in Vals :
          Begin(WriteFrame(e.h, IntVal(v), effects))

\* selector(f) called outside every scope.
OpSelector ==
    /\ Idle /\ cur = NoScope
    /\ \E f \in {NoReads} \cup (IF HookSet(<<"signal">>) THEN ComputesAt(1) ELSE {}) :
          Begin(SelectorFrame(f, effects, slots))

\* Teardown of the scope: every slot it owns is invalidated and its hooks go.
RECURSIVE InvalidateAll(_, _)
InvalidateAll(sl, is) ==
    IF is = {} THEN sl
    ELSE LET i == CHOOSE j \in is : TRUE
         IN InvalidateAll(Invalidate(sl, i), is \ {i})

OpTeardown ==
    /\ Idle /\ cur # NoScope
    /\ \E i \in SlotIds : slots[i].used
    /\ \A i \in SlotIds : slots[i].gen < MaxGen
    /\ slots' = InvalidateAll(slots, {i \in SlotIds : slots[i].used})
    /\ hooks' = NoHooks
    /\ leaked' = leaked \cup Handles
    /\ readLog' = {}
    /\ onceLog' = NoOnce
    /\ UNCHANGED <<effects, frames, cur, err, ret, scheduled, runLog>>

OpSetScope ==
    /\ Idle
    /\ cur' = IF cur = NoScope THEN "app" ELSE NoScope
    /\ UNCHANGED <<slots, effects, frames, hooks, leaked, err, ret, scheduled, readLog, onceLog, runLog>>

Init ==
    /\ slots = [i \in SlotIds |-> [gen |-> 0, used |-> FALSE, val |-> Empty]]
    /\ effects = <<>>
    /\ frames = <<>>
    /\ hooks = NoHooks
    /\ cur = "app"
    /\ leaked = {}
    /\ err = "none"
    /\ ret = Unit
    /\ scheduled = {}
    /\ readLog = {}
    /\ onceLog = NoOnce
    /\ runLog = <<>>

Next ==
    \/ OpRender
    \/ OpWrite
    \/ OpLeakedRead
    \/ OpLeakedWrite
    \/ OpSelector
    \/ OpTeardown
    \/ OpSetScope
    \/ App_use_signal
    \/ App_use_selector
    \/ App_use_selector_join
    \/ App_use_selector_with_dependencies
    \/ App_markup
    \/ use_signal_init
    \/ signal_read
    \/ use_selector_once
    \/ use_selector_store
    \/ uswd_signal
    \/ uswd_once
    \/ uswd_store
    \/ uswd_changed
    \/ uswd_set
    \/ uswd_done
    \/ selector_alloc
    \/ selector_effect
    \/ selector_push
    \/ selector_compute
    \/ selector_init
    \/ selector_pop
    \/ selector_install
    \/ callback_compute
    \/ callback_compare
    \/ callback_set
    \/ write_replace
    \/ write_run_effect
    \/ write_schedule
    \/ write_finish
    \/ effect_push
    \/ effect_pop
    \/ Return

Spec == Init /\ [][Next]_vars

\* Single-threaded synchronous execution: an operation under way takes its
\* next step; nothing makes the host start another operation.
Step == Running /\ Next
LiveSpec == Init /\ [][Next]_vars /\ WF_vars(Step)


\* ------------------------------------------------------------- properties
\* The selectors of the arena: the closures installed at selector.rs:94.
ClosureSlots == {i \in SlotIds : slots[i].val.type = "closure"}
SignalSlots == {i \in SlotIds : slots[i].val.type = "signal"}
HandleOf(i) == [slot |-> i, gen |-> slots[i].gen]
UpToDate(cl) == ValueOf(slots, cl.state) = Eval(slots, cl.f)
AtReturn(proc) == Running /\ Top.proc = proc /\ Top.pc = "ret"

\* C1: when a Signal write returns, every selector whose f reads the written
\* signal holds f of the current signal values in its backing Signal; when
\* the write is the caller's own (not one nested in a propagation), every
\* selector does.
C1_SelectorCorrect ==
    AtReturn("write") =>
        \A i \in ClosureSlots :
            (Depth = 1 \/ Top.sig \in Range(Reads(slots, slots[i].val.f)))
                => UpToDate(slots[i].val)

\* count = 0, double = selector(count * 2); count.set(2) has returned and
\* double holds 4.
C1_Witness ==
    /\ AtReturn("write")
    /\ Depth = 1
    /\ Top.old = IntVal(0)
    /\ Top.value = IntVal(2)
    /\ \E i \in ClosureSlots :
          /\ slots[i].val.f = [kind |-> "double", args |-> <<Top.sig>>]
          /\ ValueOf(slots, slots[i].val.state) = IntVal(4)

\* C2: a re-run of a selector's closure whose f() equals the backing value
\* leaves the backing value as it was and starts no write; so every write of
\* a backing Signal made by a closure, the only thing that notifies the
\* selector's effect subscribers and plain subscribers, changes the value.
C2_Memoization ==
    /\ (AtReturn("callback") /\ Top.value = Top.old)
          => /\ ~Top.changed
             /\ ValueOf(slots, Top.state) = Top.old
    /\ \A d \in 2..Len(frames) :
          (frames[d].proc = "write" /\ frames[d].pc # "replace"
              /\ frames[d - 1].proc = "callback")
            => frames[d].old # frames[d].value

\* A selector with a plain subscriber and an effect subscriber has been
\* re-run by a write that changed the signal it reads, f() was the old value,
\* and the closure returns.
C2_Witness ==
    /\ AtReturn("callback")
    /\ Top.value = Top.old
    /\ slots[Top.state.slot].val.subscribers # {}
    /\ slots[Top.state.slot].val.effect_subscribers # {}
    /\ frames[Depth - 2].proc = "write"
    /\ frames[Depth - 2].old # frames[Depth - 2].value

\* C3: when use_selector_with_dependencies((x,), |x| x * 2) returns, the
\* selector holds 2 * x; a call with the x of the snapshot writes nothing to
\* the snapshot signal and leaves the cached value as it was; a call with
\* another x overwrites the snapshot with (x,).
C3_DependencySelector ==
    AtReturn("use_selector_with_dependencies") =>
        /\ ret = HandleVal(Top.sel)
        /\ ValueOf(slots, Top.sel) = IntVal(2 * Top.x)
        /\ ValueOf(slots, Top.dsig) = TupVal(Top.x)
        /\ (Top.prev = TupVal(Top.x))
              => (~Top.wrote /\ ValueOf(slots, Top.sel) = Top.val0)
        /\ (Top.prev # TupVal(Top.x)) => (Top.wrote /\ ~Top.fresh)

\* The selector was made with x = 1 on an earlier render and held 2; this
\* call, with x = 3, has overwritten the snapshot and returns with 6.
C3_Witness ==
    /\ AtReturn("use_selector_with_dependencies")
    /\ ~Top.fresh
    /\ Top.x = 3
    /\ Top.prev = TupVal(1)
    /\ Top.val0 = IntVal(2)
    /\ Top.wrote
    /\ ValueOf(slots, Top.sel) = IntVal(6)

\* C4: when a write that changed Signal S returns, every Effect whose body
\* has read S in some execution, its first one included, has been re-run by
\* that write.
C4_SubscriptionCorrect ==
    (AtReturn("write") /\ Top.old # Top.value) =>
        \A p \in readLog : p[2] = Top.sig => p[1] \in Top.ran

\* A changing write returns after re-running two effects that read the
\* signal.
C4_Witness ==
    /\ AtReturn("write")
    /\ Top.old # Top.value
    /\ Cardinality(Top.ran) >= 2
    /\ \A e \in Top.ran : <<e, Top.sig>> \in readLog

\* C5: an Effect is in a Signal's effect_subscribers only if its body has
\* read that Signal, and a write to S re-runs only Effects whose body has
\* read S.
C5_NoSpuriousRerun ==
    /\ \A i \in SignalSlots :
          \A e \in slots[i].val.effect_subscribers : <<e, HandleOf(i)>> \in readLog
    /\ \A d \in 1..Len(frames) :
          frames[d].proc = "effect" => <<frames[d].effect, frames[d].by>> \in readLog

\* A write to S returns having re-run an effect, while a live Effect that
\* never read S was not re-run.
C5_Witness ==
    /\ AtReturn("write")
    /\ Top.ran # {}
    /\ \E i \in ClosureSlots :
          LET e == Effect("app", HandleOf(i))
          IN  /\ <<e, Top.sig>> \notin readLog
              /\ e \notin Top.ran
              /\ \E p \in readLog : p[1] = e


\* C6: within one scope instantiation once() runs selector() at most once per
\* call site, the arena holds one closure (one Effect) and one backing Signal
\* per call site that has run (and one more for a selector that the closure
\* of a call site made in its own body), and every call of use_selector or
\* use_selector_with_dependencies returns the handle the first call returned.
C6_RunOnce ==
    /\ \A k \in OnceKeys :
          /\ onceLog[k].inits <= 1
          /\ HookSet(k) => (onceLog[k].inits = 1 /\ hooks[k] = onceLog[k].first)
    /\ Idle => Cardinality(ClosureSlots)
                  = Cardinality({k \in OnceKeys : HookSet(k)})
                    + Cardinality({i \in ClosureSlots : slots[i].val.f.kind = "nest"})
    /\ AtReturn("use_selector")
          => (ret = HandleVal(onceLog[<<"sel", Top.site>>].first)
                /\ IsSignal(slots, ret.h))
    /\ AtReturn("use_selector_with_dependencies")
          => (ret = HandleVal(onceLog[<<"depsel">>].first) /\ IsSignal(slots, ret.h))

\* A re-render: use_selector returns the stored handle without a new
\* selector, in an arena that holds one closure per call site.
C6_Witness ==
    /\ AtReturn("use_selector")
    /\ ~Top.fresh
    /\ Top.site = NSelSites
    /\ ret = HandleVal(onceLog[<<"sel", Top.site>>].first)
    /\ Cardinality(ClosureSlots) = Cardinality(OnceKeys)
    /\ \A i \in ClosureSlots : slots[i].val.f.kind # "nest"

\* The handles that outlived their scope instantiation.
LeakedHandles == {e.h : e \in leaked}

\* C7: a read or write through a handle of a torn-down scope instantiation
\* never succeeds, also when its slot has been reused and initialized again;
\* and the slots selector() has allocated and not yet initialized hold no
\* value, so that a read through their handles fails.
C7_Invalidation ==
    /\ \A h \in LeakedHandles : ~Valid(slots, h)
    /\ \A d \in 1..Len(frames) :
          (frames[d].proc \in {"read", "write"} /\ frames[d].sig \in LeakedHandles)
            => frames[d].pc \in {"read", "replace"}
    /\ \A d \in 1..Len(frames) :
          frames[d].proc = "selector" =>
             /\ frames[d].pc \in {"effect", "push", "compute", "init"}
                   => ~Valid(slots, frames[d].state)
             /\ frames[d].pc \in {"push", "compute", "init", "pop", "install"}
                   => ~Valid(slots, frames[d].effect.callback)

\* A read through a leaked handle has failed although the slot it names has
\* been reused by the next instantiation and holds a Signal again.
C7_Witness ==
    /\ err = "UseAfterInvalidate"
    /\ Top.proc = "read"
    /\ Top.sig \in LeakedHandles
    /\ slots[Top.sig.slot].val.type = "signal"
    /\ slots[Top.sig.slot].gen # Top.sig.gen

\* C8: selector() without a current scope fails before it pushes an Effect
\* frame, before it runs f and before any Signal's value or subscriber set
\* changes.
C8_NotInReactiveContext ==
    err = "NotInReactiveContext" =>
        /\ Top.proc = "selector"
        /\ Top.pc = "effect"
        /\ effects = Top.stk0
        /\ Top.value = Unit
        /\ \A i \in SlotIds : slots[i].val = Top.sl0[i].val

\* selector(f) has failed outside a scope, with an f that reads a Signal which
\* has subscribers.
C8_Witness ==
    /\ err = "NotInReactiveContext"
    /\ Top.f.args # <<>>
    /\ slots[Top.f.args[1].slot].val.effect_subscribers # {}

\* C9: inside a write no component code runs -- the frames above a write are
\* effect re-runs, their closures and their writes -- and when the write
\* returns, schedule_update has been called for each plain subscriber and
\* the closure of each effect subscriber has been invoked.
C9_Propagation ==
    /\ \A d \in 1..Len(frames) :
          frames[d].proc = "write" =>
              \A j \in (d + 1)..Len(frames) :
                  frames[j].proc \in {"effect", "callback", "write"}
    /\ AtReturn("write") =>
          /\ Top.sched = Top.subs0
          /\ Top.ran = Top.esubs0
          /\ Top.subs0 \subseteq scheduled

\* A write returns that had a plain subscriber and an effect subscriber.
C9_Witness ==
    /\ AtReturn("write")
    /\ Top.sched # {}
    /\ Top.ran # {}

\* C10: while the first run of f in selector() and every re-run of a closure
\* is under way, that selector's Effect is on the Effect Stack, pushed on top
\* of the stack as it was, and it is the top whenever the run itself (not
\* something it called) is executing; when selector() returns and when a
\* write returns, the Effect Stack is what it was at entry.
C10_EffectStack ==
    /\ \A d \in 1..Len(frames) :
          (frames[d].proc = "selector" /\ frames[d].pc \in {"compute", "init", "pop"})
            => /\ Len(effects) > Len(frames[d].stk0)
               /\ SubSeq(effects, 1, Len(frames[d].stk0) + 1)
                     = Append(frames[d].stk0, frames[d].effect)
               /\ d = Len(frames) => Len(effects) = Len(frames[d].stk0) + 1
    /\ (Running /\ Top.proc = "callback" /\ Top.pc \in {"compute", "compare"})
          => (effects # <<>> /\ effects[Len(effects)] = frames[Depth - 1].effect)
    /\ (AtReturn("selector") \/ AtReturn("write")) => effects = Top.stk0

\* A write nested in an effect re-run returns, after re-running an effect
\* itself, to the stack of one frame it was entered with.
C10_Witness ==
    /\ AtReturn("write")
    /\ Len(Top.stk0) = 1
    /\ Top.ran # {}
    /\ effects = Top.stk0

\* C11: a write re-runs each Effect of the written Signal's effect_subscribers
\* exactly once: at no moment has it run one of them twice, and when it
\* returns it has run every one of them, whether or not the closure went on
\* to write its own Signal.
C11_ExactlyOnce ==
    /\ \A d \in 1..Len(frames) :
          frames[d].proc = "write" =>
             /\ \A i, j \in DOMAIN frames[d].order :
                    frames[d].order[i] = frames[d].order[j] => i = j
             /\ Range(frames[d].order) \subseteq frames[d].esubs0
    /\ AtReturn("write") =>
          /\ Len(Top.order) = Cardinality(Top.esubs0)
          /\ Range(Top.order) = Top.esubs0

\* A write returns that re-ran two effect subscribers, each once, the one
\* created later first.
C11_Witness ==
    /\ AtReturn("write")
    /\ Len(Top.order) = 2
    /\ Cardinality(Top.esubs0) = 2
    /\ Top.order[1].callback.slot > Top.order[2].callback.slot

\* The Effect of the selector whose backing Signal h is, and its re-runs in
\* the running operation.
EffectOf(h) == Effect("app", HandleOf(CHOOSE i \in ClosureSlots : slots[i].val.state = h))
IsRunOf(r, h) == r.effect = EffectOf(h)
RunsOf(h) == SelectSeq(runLog, LAMBDA r : IsRunOf(r, h))
\* The diamond: the first and the last selector both read count and nothing
\* else, and the join reads the two of them.
SelA == hooks[<<"sel", 1>>]
SelB == hooks[<<"sel", NSelSites>>]
SelJ == hooks[<<"sel", JoinSite>>]
IsDiamond ==
    /\ HookSet(<<"sel", JoinSite>>)
    /\ SelA # SelB
    /\ \A h \in {SelA, SelB} :
          /\ slots[EffectOf(h).callback.slot].val.f.kind \in {"double", "half"}
          /\ slots[EffectOf(h).callback.slot].val.f.args = <<hooks[<<"signal">>]>>

\* C12: in a diamond -- two selectors A and B over one signal, and the join
\* effect J over A and B -- one write to the signal that changes both A and B
\* runs J twice: the first run sees one of A, B with its new value and the
\* other with its old one, the second sees both new.
C12_Diamond ==
    (AtReturn("write") /\ Depth = 1 /\ Top.sig = hooks[<<"signal">>] /\ IsDiamond
        /\ \A h \in {SelA, SelB} :
              RunsOf(h) # <<>> /\ RunsOf(h)[1].value # RunsOf(h)[1].old)
    => LET a == RunsOf(SelA)[1]
           b == RunsOf(SelB)[1]
           j == RunsOf(SelJ)
       IN  /\ Len(j) = 2
           /\ j[1].seen \in {<<a.value, b.old>>, <<a.old, b.value>>}
           /\ j[2].seen = <<a.value, b.value>>

\* count.set(2) returns in the diamond A = count * 2, B = count / 2: A went
\* from 0 to 4, B from 0 to 1, and the first of the two runs of the join saw
\* A = 4 with B still 0.
C12_Witness ==
    /\ AtReturn("write") /\ Depth = 1 /\ Top.sig = hooks[<<"signal">>] /\ IsDiamond
    /\ Top.old = IntVal(0) /\ Top.value = IntVal(2)
    /\ RunsOf(SelA) # <<>> /\ RunsOf(SelA)[1].value = IntVal(4)
    /\ RunsOf(SelB) # <<>> /\ RunsOf(SelB)[1].value = IntVal(1)
    /\ Len(RunsOf(SelJ)) = 2
    /\ RunsOf(SelJ)[1].seen = <<IntVal(4), IntVal(0)>>
    /\ RunsOf(SelJ)[1].value = IntVal(4)
    /\ RunsOf(SelJ)[2].value = IntVal(5)

\* A write is on the call stack; the operation has ended.
WriteUnderWay == Running /\ \E d \in 1..Len(frames) : frames[d].proc = "write"
OperationOver == frames = <<>> \/ err # "none"
RunsBounded ==
    /\ \A d, k \in 1..Len(frames) :
          (frames[d].proc = "effect" /\ frames[k].proc = "effect"
              /\ frames[d].effect = frames[k].effect) => d = k
    /\ \A d, k \in 1..Len(frames) :
          (frames[d].proc = "write" /\ frames[k].proc = "write"
              /\ frames[d].sig = frames[k].sig) => d = k
    /\ \A d \in 1..Len(frames) :
          frames[d].proc = "write"
            => Len(frames[d].order) <= Cardinality(frames[d].esubs0)
    /\ Len(runLog) < 2 ^ Cardinality(ClosureSlots)

C14_InitialStore ==
    /\ \A d \in 1..Len(frames) :
          (frames[d].proc = "selector" /\ frames[d].pc \in {"pop", "install", "ret"})
            => /\ d = Len(frames)
               /\ slots[frames[d].state.slot].val = SignalData(frames[d].value, {}, {})
               /\ \A k \in DOMAIN runLog : runLog[k].effect # frames[d].effect
    /\ \A d, k \in 1..Len(frames) :
          (frames[d].proc = "selector" /\ frames[k].proc = "write")
            => frames[k].sig # frames[d].state

\* selector(|| count() * 2) has just stored its first value, read from a
\* Signal that has two effect subscribers; the backing Signal has none.
C14_Witness ==
    /\ At("selector", "pop")
    /\ Top.f.kind = "double"
    /\ Cardinality(slots[Top.f.args[1].slot].val.effect_subscribers) >= 2
    /\ slots[Top.state.slot].val = SignalData(Top.value, {}, {})

\* The body of a closure has just read its Signals: the first run in
\* selector() or a re-run, before anything else happens.
BodyHasRead ==
    /\ Running
    /\ \/ Top.proc = "selector" /\ Top.pc = "init"
       \/ Top.proc = "callback" /\ Top.pc = "compare"
JustRead == IF BodyHasRead THEN Range(Reads(slots, Top.f)) ELSE {}
RunningEffect == IF Top.proc = "selector" THEN Top.effect ELSE frames[Depth - 1].effect
EffectSubscribers(h) == slots[h.slot].val.effect_subscribers

\* C15 as stated: a read made while an Effect is executing, also one made
\* inside a nested selector, subscribes that Effect -- every Effect on the
\* Effect Stack is subscribed to what has just been read.
C15_AsStated ==
    \A h \in JustRead : \A e \in Range(effects) : e \in EffectSubscribers(h)

\* C15, amended: a read subscribes the Effect on top of the Effect Stack,
\* which is the Effect of the closure whose body makes the read; an Effect
\* further down the stack, whose execution is under way too, is subscribed
\* only to what its own body has read.  Every Effect stays subscribed to
\* every Signal its body has read.
C15_TopSubscribed ==
    /\ \A h \in JustRead :
          /\ effects # <<>>
          /\ effects[Len(effects)] = RunningEffect
          /\ RunningEffect \in EffectSubscribers(h)
          /\ \A k \in 1..(Len(effects) - 1) :
                effects[k] \in EffectSubscribers(h) => <<effects[k], h>> \in readLog
    /\ \A p \in readLog : IsSignal(slots, p[2]) => p[1] \in EffectSubscribers(p[2])

\* A selector made inside the first run of another selector's closure has
\* just read count: its own Effect is subscribed, the outer one, below it on
\* the stack, is not.
C15_Witness ==
    /\ At("selector", "init")
    /\ Len(effects) = 2
    /\ JustRead = {hooks[<<"signal">>]}
    /\ effects[2] \in EffectSubscribers(hooks[<<"signal">>])
    /\ effects[1] \notin EffectSubscribers(hooks[<<"signal">>])

\* Slot i holds the same Signal before and after a step.
SameSignal(i) ==
    /\ slots[i].val.type = "signal"
    /\ slots'[i].val.type = "signal"
    /\ slots'[i].gen = slots[i].gen
SubscribersGrow ==
    \A i \in SlotIds :
        SameSignal(i) =>
            /\ slots[i].val.subscribers \subseteq slots'[i].val.subscribers
            /\ slots[i].val.effect_subscribers \subseteq slots'[i].val.effect_subscribers
StaleRerun ==
    AtReturn("write") => \A p \in readLog : p[2] = Top.sig => p[1] \in Top.ran

\* C16: subscriber sets only grow.  As long as a slot holds the same Signal,
\* no step removes an entry from its subscribers or effect_subscribers; so a
\* write to S re-runs every Effect whose body has ever read S, also one whose
\* body would not read S now.
C16_SubscribersGrow == [][SubscribersGrow]_vars /\ [](StaleRerun)

\* sel = selector(|| if count() == 0 { other() } else { 1 }) read other while
\* count was 0.  count has been nonzero since before this operation, so the
\* last run of sel did not read other; count is written again, other changes
\* with it, and the write of other has re-run sel.
C16_Witness ==
    /\ AtReturn("write")
    /\ Depth > 1
    /\ frames[1].proc = "write"
    /\ frames[1].old # IntVal(0)
    /\ frames[1].value # IntVal(0)
    /\ \E i \in ClosureSlots :
          /\ slots[i].val.f.kind = "cond"
          /\ slots[i].val.f.args[2] = Top.sig
          /\ Top.sig \notin Range(Reads(slots, slots[i].val.f))
          /\ Effect("app", HandleOf(i)) \in Top.ran

\* h is the backing Signal of an installed selector; the write at depth d
\* is the state.set of the closure of the selector that owns the Signal.
IsBacking(h) == \E i \in ClosureSlots : slots[i].val.state = h
ByOwnEffect(d) ==
    /\ d >= 3
    /\ frames[d - 1].proc = "callback"
    /\ frames[d - 1].state = frames[d].sig
    /\ frames[d - 2].proc = "effect"
    /\ Valid(slots, frames[d - 2].effect.callback)
    /\ slots[frames[d - 2].effect.callback.slot].val.state = frames[d].sig
OnlyOwnerWrites ==
    \A d \in 1..Len(frames) :
        (frames[d].proc = "write" /\ IsBacking(frames[d].sig)) => ByOwnEffect(d)
BackingChange ==
    \A i \in SlotIds :
        /\ (SameSignal(i) /\ IsBacking(HandleOf(i))
              /\ slots'[i].val.value # slots[i].val.value)
             => /\ At("write", "replace")
                /\ Top.sig = HandleOf(i)
                /\ ByOwnEffect(Depth)
                /\ effects[Len(effects)] = frames[Depth - 2].effect
        /\ (slots[i].val.type = "none" /\ slots'[i].val.type = "signal"
              /\ Running /\ Top.proc = "selector")
             => /\ At("selector", "init")
                /\ Top.state = HandleOf(i)
                /\ effects[Len(effects)] = Top.effect

\* C17: a selector's backing Signal is written by its own Effect only.  A
\* write of a backing Signal is always the state.set of that selector's
\* closure, run by that selector's Effect with the Effect on top of the
\* stack; a backing value changes in no other step; and a backing slot gets
\* its first value in selector() with the new Effect on top of the stack.
C17_OnlyWriter == [](OnlyOwnerWrites) /\ [][BackingChange]_vars

\* A selector's closure has written the backing Signal: the write returns to
\* the closure, in a state where the component holds the selector's handle
\* and can write through count only.
C17_Witness ==
    /\ AtReturn("write")
    /\ IsBacking(Top.sig)
    /\ Top.old # Top.value
    /\ Top.sig \in {e.h : e \in Handles}
    /\ Writable = {hooks[<<"signal">>]}

\* C18: the Effect of a selector is never in the effect_subscribers of the
\* selector's own backing Signal -- not after the initial store, not after
\* the comparison with the old value -- and the write its closure makes does
\* not re-invoke that closure.
C18_NotSelfSubscribed ==
    /\ \A i \in ClosureSlots :
          Effect("app", HandleOf(i)) \notin EffectSubscribers(slots[i].val.state)
    /\ \A d \in 1..Len(frames) :
          (frames[d].proc = "selector" /\ frames[d].pc \in {"pop", "install", "ret"})
            => frames[d].effect \notin EffectSubscribers(frames[d].state)
    /\ \A d \in 1..Len(frames) :
          (frames[d].proc = "callback" /\ frames[d].pc \in {"set", "ret"})
            => frames[d - 1].effect \notin EffectSubscribers(frames[d].state)
    /\ \A d \in 1..Len(frames) :
          (frames[d].proc = "write" /\ d > 1 /\ frames[d - 1].proc = "callback")
            => /\ frames[d - 2].effect \notin frames[d].esubs0
               /\ frames[d - 2].effect \notin frames[d].ran

\* The closure of a selector that other Effects are subscribed to has
\* compared, found a change and written: the write has returned, having
\* re-run the subscribers, and the selector's own Effect was not among them.
C18_Witness ==
    /\ AtReturn("write")
    /\ Depth > 1
    /\ frames[Depth - 1].proc = "callback"
    /\ Top.ran # {}
    /\ frames[Depth - 2].effect \notin Top.ran
    /\ <<frames[Depth - 2].effect, Top.sig>> \notin readLog

\* selector() at depth d has made its Effect and not yet installed the closure.
UnderConstruction(d) ==
    /\ frames[d].proc = "selector"
    /\ frames[d].pc \in {"push", "compute", "init", "pop", "install"}

\* C19: the closure is installed last.  Every installed closure, and every
\* closure that is running, has an initialized backing Signal, so its read
\* of the old value does not fail; selector() installs with the Effect
\* popped.  Until then the Effect's callback slot holds nothing: a write made
\* by the first run of f that names the Effect as a subscriber runs no
\* closure for it -- the attempt fails -- and f has run once.
C19_InstalledLast ==
    /\ \A i \in ClosureSlots : IsSignal(slots, slots[i].val.state)
    /\ \A d \in 1..Len(frames) :
          frames[d].proc = "callback" => IsSignal(slots, frames[d].state)
    /\ \A d \in 1..Len(frames) :
          (frames[d].proc = "selector" /\ frames[d].pc = "install")
            => (IsSignal(slots, frames[d].state) /\ effects = frames[d].stk0)
    /\ \A d \in 1..Len(frames) :
          UnderConstruction(d) =>
             /\ ~Valid(slots, frames[d].effect.callback)
             /\ \A k \in DOMAIN runLog : runLog[k].effect # frames[d].effect
             /\ \A k \in 1..Len(frames) :
                   /\ frames[k].proc = "callback" => frames[k].state # frames[d].state
                   /\ (frames[k].proc = "effect" /\ frames[k].effect = frames[d].effect)
                         => /\ ~frames[k].ran
                            /\ k = Len(frames)
                            /\ frames[k].pc = "push"

\* selector(|| { let v = count(); count.set(v + 1); v * 2 }): the first run
\* has read count and written it, the write has re-run another selector that
\* reads count, and its attempt to re-run this selector, whose callback slot
\* is still empty, has failed.
C19_Witness ==
    /\ err = "UseAfterInvalidate"
    /\ Top.proc = "effect"
    /\ <<Top.effect, Top.by>> \in readLog
    /\ frames[Depth - 1].ran # {}
    /\ \E d \in 1..Len(frames) :
          /\ UnderConstruction(d)
          /\ frames[d].effect = Top.effect
          /\ frames[d].f.kind = "bump"
          /\ frames[d].value # Unit

\* C20: when use_selector_with_dependencies(deps, f) returns, the snapshot
\* Signal holds deps.out() of this call and the selector holds what its
\* closure computes from the snapshot; the snapshot is written exactly in the
\* calls whose deps differ from what was stored, never in the creating call,
\* and by nothing else.
C20_Snapshot ==
    /\ AtReturn("use_selector_with_dependencies") =>
          /\ Top.dsig = hooks[<<"deps">>]
          /\ ValueOf(slots, Top.dsig) = DepOut(Top.x)
          /\ \E i \in ClosureSlots :
                /\ slots[i].val.state = Top.sel
                /\ slots[i].val.f = [kind |-> "dep", args |-> <<Top.dsig>>]
                /\ ValueOf(slots, Top.sel) = Eval(slots, slots[i].val.f)
          /\ Top.wrote <=> DepChanged(Top.x, Top.prev)
          /\ Top.fresh => ~Top.wrote
    /\ \A d \in 1..Len(frames) :
          (frames[d].proc = "write" /\ HookSet(<<"deps">>)
              /\ frames[d].sig = hooks[<<"deps">>])
            => /\ d > 1
               /\ frames[d - 1].proc = "use_selector_with_dependencies"
               /\ ~frames[d - 1].fresh
               /\ frames[d - 1].changed
               /\ frames[d].value = DepOut(frames[d - 1].x)
               /\ frames[d].value # frames[d - 1].prev

\* The creating call, with x = 3, returns: the snapshot is (3,), the selector
\* holds 6 and nothing was written.
C20_Witness ==
    /\ AtReturn("use_selector_with_dependencies")
    /\ Top.fresh
    /\ Top.x = 3
    /\ ~Top.wrote
    /\ ValueOf(slots, Top.dsig) = TupVal(3)
    /\ ValueOf(slots, Top.sel) = IntVal(6)

====
